---- MODULE Spec2Model ----
(***************************************************************************)
(* Model of the FOMO-AD -> GPT-4o cascade demo.                            *)
(*                                                                         *)
(*   src/README.md  lines 160-347: startWebServer (cascade trigger loop,   *)
(*                  classifier 'result' handler, camera 'snapshot'         *)
(*                  handler, socket control events)                        *)
(*   src/helpers.ts getBoundingBoxesFromGrid, highlightAnomalyInImage      *)
(*                                                                         *)
(* The specifications of this module share one list of variables:         *)
(*   Spec          the cascade: trigger loop, result handlers, snapshot    *)
(*                 handler and control events, freely interleaved at the   *)
(*                 await points of the code                                *)
(*   SpecTimed     the trigger loop against a clock (unit 100 ms)          *)
(*   SpecThreshold the 'threshold-override' socket handler                 *)
(*   SpecGrid      getBoundingBoxesFromGrid, one step per loop iteration   *)
(*   SpecGridFair  SpecGrid with the loop always taking its next step      *)
(*   SpecAnnotate  highlightAnomalyInImage, one step per await, with the   *)
(*                 steps of getBoundingBoxesFromGrid in between            *)
(*   SpecRate      the trigger loop against a clock, with classifier       *)
(*                 results at any rate                                     *)
(*   SpecSnapshot  the camera 'snapshot' handler against a clock           *)
(***************************************************************************)
EXTENDS Integers, Sequences, FiniteSets, TLC

VARIABLES
    \* ---- startWebServer closure state (src/README.md) ----
    cascadeEnabled,               \* line 169
    prompt,                       \* line 170
    lastFrameOriginalResolution,  \* line 178: 0 = undefined, 1 = a frame
    isRunningOpenAI,              \* line 210
    imgToSendToOpenAI,            \* line 212
    anomalySeen,                  \* line 213
    loopPc,                       \* where the trigger loop is suspended
    inFlight,                     \* openai.chat.completions.create calls not yet settled
    request,                      \* arguments of the call in flight
    emitted,                      \* io.emit('anomaly', ...) messages since the last poll
    console,                      \* console.log lines since the last poll
    handlers,                     \* 'result' handlers suspended at an await
    \* ---- history of the run ----
    nResults,                     \* classifier results received so far
    nCalls,                       \* downstream calls started so far
    latestEv,                     \* the classifier result received last
    lastAnnotated,                \* the result whose annotation completed last
    flips,                        \* changes of anomalySeen during the call in flight
    polled,                       \* what the poll that left Idle read, until Idle again
    issued,                       \* what held when the call in flight was issued
    cycleOutcome,                 \* how the loop iteration just ended, until the next poll
    \* ---- clock of SpecTimed ----
    now, timerAt, sigStart,
    \* ---- 'threshold-override' handler (SpecThreshold) ----
    thresholdObj, thPending, thBackend, thLast,
    \* ---- getBoundingBoxesFromGrid (SpecGrid) ----
    grid, visited, boundingBoxes, queue, box, scan, gridPc, regions, enqueued,
    \* ---- highlightAnomalyInImage (SpecAnnotate) ----
    imgMetadata,                  \* line 63: what sharp reads of the image passed in
    modelParameters,              \* model.modelParameters
    visual_anomaly_grid,          \* ev.result.visual_anomaly_grid
    annPc,                        \* where the function is suspended, or how it ended
    overlayRects,                 \* line 106
    returned,                     \* what the promise resolved with
    \* ---- camera 'snapshot' handler (SpecSnapshot) ----
    nextFrame,                    \* line 179
    processingFrame,              \* line 180
    snapshotsInProcess,           \* handlers suspended at line 203
    snapLast,                     \* the last step of the handler and the state before it
    \* ---- history kept for SpecRate ----
    lastStart,                    \* when the last downstream call was started
    lastEnd,                      \* when the last downstream call settled
    cycles                        \* poll/settle cycles completed (line 226 reached)

cascadeVars ==
    <<cascadeEnabled, prompt, lastFrameOriginalResolution, isRunningOpenAI,
      imgToSendToOpenAI, anomalySeen, loopPc, inFlight, request, emitted, console,
      handlers, nResults, nCalls, latestEv, lastAnnotated, flips, polled, issued,
      cycleOutcome>>
timeVars == <<now, timerAt, sigStart>>
thresholdVars == <<thresholdObj, thPending, thBackend, thLast>>
gridVars == <<grid, visited, boundingBoxes, queue, box, scan, gridPc, regions, enqueued>>
annotVars ==
    <<imgMetadata, modelParameters, visual_anomaly_grid, annPc, overlayRects, returned>>
snapVars == <<nextFrame, processingFrame, snapshotsInProcess, snapLast>>
rateVars == <<lastStart, lastEnd, cycles>>
restVars == <<annotVars, snapVars, rateVars>>
vars == <<cascadeVars, timeVars, thresholdVars, gridVars, restVars>>

(***************************************************************************)
(* Bounds of the model.                                                    *)
(***************************************************************************)
MaxResults == 3     \* classifier results delivered in one run
MaxCalls == 2       \* downstream calls started in one run

(***************************************************************************)
(* Values.                                                                 *)
(***************************************************************************)
BASE_PROMPT == "BASE_PROMPT"
\* the texts a 'prompt' event can carry; "" is the empty (falsy) string
Prompts == {"", BASE_PROMPT}

NoImage == [frame |-> 0, overlay |-> 0]
NoEv == [seq |-> 0, anomaly |-> FALSE, frame |-> 0]
NoRequest == [prompt |-> "", img |-> NoImage]
NoPoll == [anomalySeen |-> FALSE, cascadeEnabled |-> FALSE, prompt |-> ""]
NoIssue == [anomalySeen |-> FALSE, cascadeEnabled |-> FALSE,
            latestEv |-> NoEv, lastAnnotated |-> NoEv]

\* highlightAnomalyInImage (src/helpers.ts:62-141) as seen by its caller: the
\* frame itself when the result has no anomaly cells, else a new PNG of the
\* resized frame with the overlay of that result's cells
highlightAnomalyInImage(img, hasAnomaly, seq) ==
    IF hasAnomaly THEN [frame |-> img, overlay |-> seq] ELSE [frame |-> img, overlay |-> 0]

\* lines 291-296
AnomalySeenUpdate(hasAnomaly, running) == hasAnomaly /\ ~running

(***************************************************************************)
(* Camera 'snapshot' handler, src/README.md:181-208, as the cascade sees   *)
(* it: a snapshot that passes the guard of line 182 replaces the stored    *)
(* frame (line 184).  The rest of the handler only touches nextFrame and   *)
(* processingFrame, which nothing else reads.  Frames are not told apart:  *)
(* 1 stands for any stored frame.                                          *)
(***************************************************************************)
SnapshotAccepted ==
    /\ lastFrameOriginalResolution' = 1
    /\ UNCHANGED <<cascadeEnabled, prompt, isRunningOpenAI, imgToSendToOpenAI,
                   anomalySeen, loopPc, inFlight, request, emitted, console, handlers,
                   nResults, nCalls, latestEv, lastAnnotated, flips, polled, issued,
                   cycleOutcome>>

(***************************************************************************)
(* Classifier 'result' handler, src/README.md:275-297.  The handler is an  *)
(* async function the emitter does not await: a handler suspended at line  *)
(* 284 or 287 stays in `handlers` while later results start their own.     *)
(***************************************************************************)
Flipped(before, after) ==
    IF loopPc = "calling" /\ before # after /\ flips < 2 THEN flips + 1 ELSE flips

\* lines 276-284 (and 291-296 when no frame has been stored yet)
ResultArrives(hasAnomaly) ==
    /\ nResults < MaxResults
    /\ nResults' = nResults + 1
    /\ latestEv' = [seq |-> nResults + 1, anomaly |-> hasAnomaly,
                    frame |-> lastFrameOriginalResolution]
    /\ IF lastFrameOriginalResolution # 0
          THEN /\ handlers' = handlers \cup
                      {[seq |-> nResults + 1, anomaly |-> hasAnomaly,
                        frame |-> lastFrameOriginalResolution, pc |-> "annotating"]}
               /\ UNCHANGED <<anomalySeen, flips>>
          ELSE /\ anomalySeen' = AnomalySeenUpdate(hasAnomaly, isRunningOpenAI)
               /\ flips' = Flipped(anomalySeen, anomalySeen')
               /\ UNCHANGED handlers
    /\ UNCHANGED <<cascadeEnabled, prompt, lastFrameOriginalResolution, isRunningOpenAI,
                   imgToSendToOpenAI, loopPc, inFlight, request, emitted, console,
                   nCalls, lastAnnotated, polled, issued, cycleOutcome>>

\* line 284 resumes with the annotated image; then 286-287 or 291-296
AnnotateDone(h) ==
    /\ h \in handlers /\ h.pc = "annotating"
    /\ imgToSendToOpenAI' = highlightAnomalyInImage(h.frame, h.anomaly, h.seq)
    /\ lastAnnotated' = [seq |-> h.seq, anomaly |-> h.anomaly, frame |-> h.frame]
    /\ IF h.anomaly
          THEN /\ handlers' = (handlers \ {h}) \cup {[h EXCEPT !.pc = "writing"]}
               /\ UNCHANGED <<anomalySeen, flips>>
          ELSE /\ handlers' = handlers \ {h}
               /\ anomalySeen' = AnomalySeenUpdate(h.anomaly, isRunningOpenAI)
               /\ flips' = Flipped(anomalySeen, anomalySeen')
    /\ UNCHANGED <<cascadeEnabled, prompt, lastFrameOriginalResolution, isRunningOpenAI,
                   loopPc, inFlight, request, emitted, console, nResults, nCalls,
                   latestEv, polled, issued, cycleOutcome>>

\* line 287 resumes (sharp(...).toFile('tmp.png') resolved); then 291-296
WriteDone(h) ==
    /\ h \in handlers /\ h.pc = "writing"
    /\ handlers' = handlers \ {h}
    /\ anomalySeen' = AnomalySeenUpdate(h.anomaly, isRunningOpenAI)
    /\ flips' = Flipped(anomalySeen, anomalySeen')
    /\ UNCHANGED <<cascadeEnabled, prompt, lastFrameOriginalResolution, isRunningOpenAI,
                   imgToSendToOpenAI, loopPc, inFlight, request, emitted, console,
                   nResults, nCalls, latestEv, lastAnnotated, polled, issued,
                   cycleOutcome>>

\* the promise awaited at line 284 or 287 rejects: the handler has no try/catch,
\* so it ends there and lines 291-296 are not run for this result
HandlerRejects(h) ==
    /\ h \in handlers
    /\ handlers' = handlers \ {h}
    /\ UNCHANGED <<cascadeEnabled, prompt, lastFrameOriginalResolution, isRunningOpenAI,
                   imgToSendToOpenAI, anomalySeen, loopPc, inFlight, request, emitted,
                   console, nResults, nCalls, latestEv, lastAnnotated, flips, polled,
                   issued, cycleOutcome>>

(***************************************************************************)
(* Socket control events, src/README.md:306-315.                           *)
(***************************************************************************)
CascadeEnable ==
    /\ cascadeEnabled' = TRUE
    /\ UNCHANGED <<prompt, lastFrameOriginalResolution, isRunningOpenAI,
                   imgToSendToOpenAI, anomalySeen, loopPc, inFlight, request, emitted,
                   console, handlers, nResults, nCalls, latestEv, lastAnnotated, flips,
                   polled, issued, cycleOutcome>>

CascadeDisable ==
    /\ cascadeEnabled' = FALSE
    /\ UNCHANGED <<prompt, lastFrameOriginalResolution, isRunningOpenAI,
                   imgToSendToOpenAI, anomalySeen, loopPc, inFlight, request, emitted,
                   console, handlers, nResults, nCalls, latestEv, lastAnnotated, flips,
                   polled, issued, cycleOutcome>>

SetPrompt(promptArg) ==
    /\ prompt' = promptArg
    /\ UNCHANGED <<cascadeEnabled, lastFrameOriginalResolution, isRunningOpenAI,
                   imgToSendToOpenAI, anomalySeen, loopPc, inFlight, request, emitted,
                   console, handlers, nResults, nCalls, latestEv, lastAnnotated, flips,
                   polled, issued, cycleOutcome>>

(***************************************************************************)
(* Cascade trigger loop, src/README.md:215-273.  loopPc names the await    *)
(* the loop is suspended at: "sleep1" (line 218), "sleep2" (line 225),     *)
(* "calling" (line 234).                                                   *)
(***************************************************************************)
\* lines 220-222: none of the three `continue`s is taken
PollIgnoresEnabled == anomalySeen /\ prompt # ""
PollPasses == anomalySeen /\ cascadeEnabled /\ prompt # ""

\* line 226: the `continue` is not taken
RecheckSkipped == TRUE
RecheckPasses == anomalySeen

\* line 244: the image put in the request
RequestRawFrame == [frame |-> lastFrameOriginalResolution, overlay |-> 0]
RequestImage == imgToSendToOpenAI

\* line 234: the loop awaits the call it issues
LoopNotAwaited == "sleep1"
LoopAfterIssue == "calling"

\* the timer of line 218 fires: lines 220-225
LoopPoll ==
    /\ loopPc = "sleep1"
    /\ IF PollPasses
          THEN /\ loopPc' = "sleep2"
               /\ polled' = [anomalySeen |-> anomalySeen,
                             cascadeEnabled |-> cascadeEnabled, prompt |-> prompt]
          ELSE UNCHANGED <<loopPc, polled>>
    /\ emitted' = <<>> /\ console' = <<>> /\ cycleOutcome' = "none"
    /\ UNCHANGED <<cascadeEnabled, prompt, lastFrameOriginalResolution, isRunningOpenAI,
                   imgToSendToOpenAI, anomalySeen, inFlight, request, handlers,
                   nResults, nCalls, latestEv, lastAnnotated, flips, issued>>

\* the timer of line 225 fires: lines 226-249
LoopRecheck ==
    /\ loopPc = "sleep2"
    /\ IF RecheckPasses
          THEN /\ nCalls < MaxCalls
               /\ console' = <<"Anomaly detected, asking GPT-4o...">>
               /\ emitted' = <<"Anomaly detected, asking GPT-4o...">>
               /\ request' = [prompt |-> prompt, img |-> RequestImage]
               /\ inFlight' = inFlight + 1
               /\ nCalls' = nCalls + 1
               /\ flips' = 0
               /\ issued' = [anomalySeen |-> anomalySeen,
                             cascadeEnabled |-> cascadeEnabled,
                             latestEv |-> latestEv, lastAnnotated |-> lastAnnotated]
               /\ cycleOutcome' = "pending"
               /\ loopPc' = LoopAfterIssue
               /\ UNCHANGED polled
          ELSE /\ loopPc' = "sleep1"
               /\ polled' = NoPoll
               /\ cycleOutcome' = "debounced"
               /\ UNCHANGED <<console, emitted, request, inFlight, nCalls, flips,
                              issued>>
    /\ UNCHANGED <<cascadeEnabled, prompt, lastFrameOriginalResolution, isRunningOpenAI,
                   imgToSendToOpenAI, anomalySeen, handlers, nResults, latestEv,
                   lastAnnotated>>

\* line 234 resumes with a response: lines 251-266, or a throw into 268-271
CallResolves(wellFormed) ==
    /\ loopPc = "calling" /\ inFlight > 0
    /\ inFlight' = inFlight - 1
    /\ IF wellFormed
          THEN /\ console' = Append(console, "Response: ")
               /\ emitted' = Append(emitted, "Response: ")
               /\ cycleOutcome' = "response"
          ELSE /\ console' = Append(console, "OpenAI failed:")
               /\ cycleOutcome' = "malformed"
               /\ UNCHANGED emitted
    /\ loopPc' = "sleep1"
    /\ request' = NoRequest /\ issued' = NoIssue /\ polled' = NoPoll /\ flips' = 0
    /\ UNCHANGED <<cascadeEnabled, prompt, lastFrameOriginalResolution, isRunningOpenAI,
                   imgToSendToOpenAI, anomalySeen, handlers, nResults, nCalls, latestEv,
                   lastAnnotated>>

\* line 234 resumes with a rejection (network or API error): lines 268-271
CallRejects ==
    /\ loopPc = "calling" /\ inFlight > 0
    /\ inFlight' = inFlight - 1
    /\ console' = Append(console, "OpenAI failed:")
    /\ cycleOutcome' = "error"
    /\ loopPc' = "sleep1"
    /\ request' = NoRequest /\ issued' = NoIssue /\ polled' = NoPoll /\ flips' = 0
    /\ UNCHANGED <<cascadeEnabled, prompt, lastFrameOriginalResolution, isRunningOpenAI,
                   imgToSendToOpenAI, anomalySeen, emitted, handlers, nResults, nCalls,
                   latestEv, lastAnnotated>>

(***************************************************************************)
(* State after startWebServer has run its synchronous part.                *)
(***************************************************************************)
CascadeInit ==
    /\ cascadeEnabled = FALSE
    /\ prompt = BASE_PROMPT
    /\ lastFrameOriginalResolution = 0
    /\ isRunningOpenAI = FALSE
    /\ imgToSendToOpenAI = NoImage
    /\ anomalySeen = FALSE
    /\ loopPc = "sleep1"
    /\ inFlight = 0
    /\ request = NoRequest
    /\ emitted = <<>>
    /\ console = <<>>
    /\ handlers = {}
    /\ nResults = 0 /\ nCalls = 0
    /\ latestEv = NoEv
    /\ lastAnnotated = NoEv
    /\ flips = 0
    /\ polled = NoPoll
    /\ issued = NoIssue
    /\ cycleOutcome = "none"

TimeIdle == now = 0 /\ timerAt = 0 /\ sigStart = 0
\* line 171-172: thresholdObj when the model has no anomaly_gmm threshold (undefined)
NoThreshold == [id |-> 0, min_anomaly_score |-> 0]
NoThresholdStep == [op |-> "none", arg |-> <<>>, value |-> 0, before |-> NoThreshold]
ThresholdIdle ==
    thresholdObj = NoThreshold /\ thPending = {} /\ thBackend = 0 /\ thLast = NoThresholdStep
NoBox == [minX |-> 0, maxX |-> 0, minY |-> 0, maxY |-> 0]
GridIdle ==
    /\ grid = <<>> /\ visited = <<>> /\ boundingBoxes = <<>> /\ queue = <<>>
    /\ box = NoBox /\ scan = <<0, 0>> /\ gridPc = "idle" /\ regions = <<>>
    /\ enqueued = <<>>

\* no image has been passed to highlightAnomalyInImage
NoMetadata == [readable |-> FALSE, width |-> 0, height |-> 0]
NoModel == [image_input_width |-> 0, image_input_height |-> 0]
NoGrid == [present |-> FALSE, cells |-> <<>>]
NoReturn == [kind |-> "none", rects |-> <<>>, width |-> 0, height |-> 0]
AnnotIdle ==
    /\ imgMetadata = NoMetadata /\ modelParameters = NoModel
    /\ visual_anomaly_grid = NoGrid /\ annPc = "idle"
    /\ overlayRects = <<>> /\ returned = NoReturn
NoSnapStep ==
    [op |-> "none", data |-> 0, at |-> 0, frame |-> 0, nextFrame |-> 0,
     processingFrame |-> FALSE]
SnapIdle ==
    /\ nextFrame = 0 /\ processingFrame = FALSE /\ snapshotsInProcess = 0
    /\ snapLast = NoSnapStep
RateIdle == lastStart = 0 /\ lastEnd = 0 /\ cycles = 0
RestIdle == AnnotIdle /\ SnapIdle /\ RateIdle

Init == CascadeInit /\ TimeIdle /\ ThresholdIdle /\ GridIdle /\ RestIdle

\* the other specifications' variables stay as Init leaves them
CascadeOnly == UNCHANGED <<timeVars, thresholdVars, gridVars, restVars>>

Next ==
    \/ SnapshotAccepted /\ CascadeOnly
    \/ \E hasAnomaly \in BOOLEAN : ResultArrives(hasAnomaly) /\ CascadeOnly
    \/ \E h \in handlers : AnnotateDone(h) /\ CascadeOnly
    \/ \E h \in handlers : WriteDone(h) /\ CascadeOnly
    \/ \E h \in handlers : HandlerRejects(h) /\ CascadeOnly
    \/ CascadeEnable /\ CascadeOnly
    \/ CascadeDisable /\ CascadeOnly
    \/ \E promptArg \in Prompts : SetPrompt(promptArg) /\ CascadeOnly
    \/ LoopPoll /\ CascadeOnly
    \/ LoopRecheck /\ CascadeOnly
    \/ \E wellFormed \in BOOLEAN : CallResolves(wellFormed) /\ CascadeOnly
    \/ CallRejects /\ CascadeOnly

Spec == Init /\ [][Next]_vars

(***************************************************************************)
(* Claims checked under Spec.                                              *)
(***************************************************************************)
AnnotationOf(ev) ==
    IF ev = NoEv THEN NoImage ELSE highlightAnomalyInImage(ev.frame, ev.anomaly, ev.seq)

\* C1: at most one downstream call is in flight in every reachable state, and
\* a call is in flight only while the loop is suspended on it, whatever the
\* result handlers do to anomalySeen meanwhile.
C1_AtMostOneInFlight ==
    /\ inFlight \in {0, 1}
    /\ inFlight = 1 => loopPc = "calling"

\* a call is in flight and anomalySeen went off and on again during it
C1_Witness == inFlight = 1 /\ flips = 2 /\ anomalySeen

\* C2: a call is started only by a re-check that finds anomalySeen set, after a
\* poll that found it set; a re-check that finds it cleared returns the loop to
\* Idle and starts no call.
C2_Debounce ==
    [][ /\ nCalls' # nCalls =>
              loopPc = "sleep2" /\ polled.anomalySeen /\ anomalySeen
        /\ (loopPc = "sleep2" /\ loopPc' # "sleep2" /\ ~anomalySeen) =>
              loopPc' = "sleep1" /\ nCalls' = nCalls /\ inFlight' = inFlight ]_vars

\* a cycle left Idle on a set signal and the re-check found it cleared: no call
C2_Witness == cycleOutcome = "debounced" /\ loopPc = "sleep1" /\ nCalls = 0

\* C4 (as claimed): a call that has ended has emitted exactly one notification
\* after the starting one: the result when the response was well formed, a
\* failure notification otherwise.
C4_OneNotificationPerCall ==
    /\ cycleOutcome = "response" =>
          emitted = <<"Anomaly detected, asking GPT-4o...", "Response: ">>
    /\ cycleOutcome \in {"malformed", "error"} => Len(emitted) = 2

\* C5 (as claimed): at the moment a call is issued cascade is enabled and the
\* prompt is non-empty.
C5_EnabledAtIssue ==
    loopPc = "calling" => issued.cascadeEnabled /\ request.prompt # ""

\* C5 (amended): the poll that left Idle for the call read cascade enabled and a
\* non-empty prompt.
C5_EnabledAtPoll ==
    loopPc \in {"sleep2", "calling"} => polled.cascadeEnabled /\ polled.prompt # ""

\* a call issued after cascade was disabled during the settle delay
C5_Witness == loopPc = "calling" /\ polled.cascadeEnabled /\ ~issued.cascadeEnabled

\* C6 (as claimed): the image of the call is the annotation of the latest
\* classifier result received when the call was issued (taken for a result
\* that arrived with a frame stored, once some annotation has completed).
C6_LatestResultImage ==
    (loopPc = "calling" /\ issued.latestEv.frame # 0 /\ issued.lastAnnotated # NoEv) =>
        request.img = AnnotationOf(issued.latestEv)

\* C6 (amended): the image of the call is the output of the annotation that
\* completed last before the call was issued (the initial empty buffer if none).
C6_LastCompletedAnnotation ==
    loopPc = "calling" => request.img = AnnotationOf(issued.lastAnnotated)

\* a call carrying the annotation of a result older than the latest received
C6_Witness ==
    /\ loopPc = "calling"
    /\ issued.lastAnnotated # NoEv
    /\ issued.lastAnnotated.seq < issued.latestEv.seq

(***************************************************************************)
(* SpecTimed: the trigger loop against a clock.  One tick is 100 ms; the   *)
(* timers of lines 218 and 225 fire exactly when due, and what happens at  *)
(* one instant happens in any order.  Cascade is enabled, the prompt is    *)
(* set, the loop is in its poll sleep and the anomaly signal is off; the   *)
(* signal then comes on at sigStart, stays on for SignalTicks and goes     *)
(* off for good.  anomalySeen follows the signal through lines 291-296.    *)
(***************************************************************************)
PollTicks == 5                       \* line 218: sleep(500)
SettleDoubled == 2 * PollTicks
SettleTicks == 5                     \* line 225: sleep(500)
SignalTicks == 2 * PollTicks + 1     \* 1100 ms: slightly more than two poll periods
MaxTime == 30                        \* the clock stops here

SignalPresent(t) == sigStart <= t /\ t < sigStart + SignalTicks

\* lines 291-296 for a result computed from the scene as it is now
TSignal ==
    /\ anomalySeen # AnomalySeenUpdate(SignalPresent(now), isRunningOpenAI)
    /\ anomalySeen' = AnomalySeenUpdate(SignalPresent(now), isRunningOpenAI)
    /\ UNCHANGED <<cascadeEnabled, prompt, lastFrameOriginalResolution, isRunningOpenAI,
                   imgToSendToOpenAI, loopPc, inFlight, request, emitted, console,
                   handlers, nResults, nCalls, latestEv, lastAnnotated, flips, polled,
                   issued, cycleOutcome>>
    /\ UNCHANGED <<timeVars, thresholdVars, gridVars, restVars>>

\* 100 ms pass: no timer is due and the results of this instant are handled
Tick ==
    /\ now < MaxTime
    /\ loopPc \in {"sleep1", "sleep2"} => timerAt > now
    /\ anomalySeen = AnomalySeenUpdate(SignalPresent(now), isRunningOpenAI)
    /\ now' = now + 1
    /\ UNCHANGED <<cascadeVars, timerAt, sigStart, thresholdVars, gridVars, restVars>>

TPoll ==
    /\ timerAt = now
    /\ LoopPoll
    /\ timerAt' = IF loopPc' = "sleep2" THEN now + SettleTicks ELSE now + PollTicks
    /\ UNCHANGED <<now, sigStart, thresholdVars, gridVars, restVars>>

TRecheck ==
    /\ timerAt = now
    /\ LoopRecheck
    /\ timerAt' = IF loopPc' = "sleep1" THEN now + PollTicks ELSE timerAt
    /\ UNCHANGED <<now, sigStart, thresholdVars, gridVars, restVars>>

TCallResolves(wellFormed) ==
    /\ CallResolves(wellFormed)
    /\ timerAt' = now + PollTicks
    /\ UNCHANGED <<now, sigStart, thresholdVars, gridVars, restVars>>

TCallRejects ==
    /\ CallRejects
    /\ timerAt' = now + PollTicks
    /\ UNCHANGED <<now, sigStart, thresholdVars, gridVars, restVars>>

TimedInit ==
    /\ cascadeEnabled = TRUE
    /\ prompt = BASE_PROMPT
    /\ lastFrameOriginalResolution = 0
    /\ isRunningOpenAI = FALSE
    /\ imgToSendToOpenAI = NoImage
    /\ anomalySeen = FALSE
    /\ loopPc = "sleep1"
    /\ inFlight = 0
    /\ request = NoRequest
    /\ emitted = <<>>
    /\ console = <<>>
    /\ handlers = {}
    /\ nResults = 0 /\ nCalls = 0
    /\ latestEv = NoEv
    /\ lastAnnotated = NoEv
    /\ flips = 0
    /\ polled = NoPoll
    /\ issued = NoIssue
    /\ cycleOutcome = "none"
    /\ now = 0
    /\ timerAt \in 1..PollTicks
    /\ sigStart \in 1..PollTicks
    /\ ThresholdIdle /\ GridIdle /\ RestIdle

TimedNext ==
    \/ TSignal
    \/ Tick
    \/ TPoll
    \/ TRecheck
    \/ \E wellFormed \in BOOLEAN : TCallResolves(wellFormed)
    \/ TCallRejects

SpecTimed == TimedInit /\ [][TimedNext]_vars

\* C3: a signal present for 1100 ms leads to exactly one downstream call: never
\* more than one, and one has been started by the time the signal clears.
C3_ExactlyOneCall ==
    /\ nCalls <= 1
    /\ now >= sigStart + SignalTicks => nCalls = 1

\* the signal has cleared after one call, and the poll that followed the call
\* still saw the signal but its re-check did not
C3_Witness ==
    /\ now >= sigStart + SignalTicks
    /\ nCalls = 1 /\ loopPc = "sleep1" /\ cycleOutcome = "debounced"

(***************************************************************************)
(* SpecThreshold: the 'threshold-override' socket handler,                 *)
(* src/README.md:317-339.  The argument is a string, modelled as a         *)
(* sequence of characters; Number() is JavaScript's string-to-number       *)
(* conversion on it.  Handlers suspended at line 325 are the requests in   *)
(* thPending; requests with the same value are not told apart.             *)
(***************************************************************************)
MaxArgLen == 2       \* characters in a threshold-override argument
MaxPending == 2      \* setLearnBlockThreshold requests awaited at once

Digits == {"1"}
Chars == Digits \cup {" ", "x"}
Args == UNION {[1..n -> Chars] : n \in 0..MaxArgLen}
\* NaN, told apart from every threshold value of the model
NaN == 0 - 1

RECURSIVE TrimLeft(_)
TrimLeft(str) ==
    IF str # <<>> /\ Head(str) = " " THEN TrimLeft(Tail(str)) ELSE str

RECURSIVE TrimRight(_)
TrimRight(str) ==
    IF str # <<>> /\ str[Len(str)] = " "
       THEN TrimRight(SubSeq(str, 1, Len(str) - 1))
       ELSE str

DigitValue(c) == IF c = "1" THEN 1 ELSE 0

RECURSIVE DecimalValue(_)
DecimalValue(str) ==
    IF str = <<>> THEN 0
    ELSE 10 * DecimalValue(SubSeq(str, 1, Len(str) - 1)) + DigitValue(str[Len(str)])

\* Number(str): white space is trimmed, the empty string is 0, a string of
\* digits is its decimal value, anything else is NaN
Number(str) ==
    LET t == TrimRight(TrimLeft(str)) IN
    IF t = <<>> THEN 0
    ELSE IF \A i \in 1..Len(t) : t[i] \in Digits THEN DecimalValue(t)
    ELSE NaN

\* line 319: thresholdOverrideArg && !isNaN(Number(thresholdOverrideArg)) && thresholdObj
ThresholdArgAccepted(arg) == arg # <<>> /\ Number(arg) # NaN /\ thresholdObj # NoThreshold

\* lines 318-325: up to the await of setLearnBlockThreshold, or a return
ThresholdOverride(thresholdOverrideArg) ==
    /\ IF /\ ThresholdArgAccepted(thresholdOverrideArg)
          /\ Number(thresholdOverrideArg) # thresholdObj.min_anomaly_score
          THEN /\ Cardinality(thPending \cup {Number(thresholdOverrideArg)}) <= MaxPending
               /\ thPending' = thPending \cup {Number(thresholdOverrideArg)}
               /\ thLast' = [op |-> "forwarded", arg |-> thresholdOverrideArg,
                             value |-> Number(thresholdOverrideArg),
                             before |-> thresholdObj]
          ELSE /\ UNCHANGED thPending
               /\ thLast' = [op |-> "ignored", arg |-> thresholdOverrideArg,
                             value |-> Number(thresholdOverrideArg),
                             before |-> thresholdObj]
    /\ UNCHANGED <<thresholdObj, thBackend>>
    /\ UNCHANGED <<cascadeVars, timeVars, gridVars, restVars>>

\* line 325 resumes: the backend has set the threshold; lines 331-333
ThresholdConfirmed(v) ==
    /\ v \in thPending
    /\ thPending' = thPending \ {v}
    /\ thBackend' = v
    /\ thresholdObj' = [thresholdObj EXCEPT !.min_anomaly_score = v]
    /\ thLast' = [op |-> "confirmed", arg |-> <<>>, value |-> v, before |-> thresholdObj]
    /\ UNCHANGED <<cascadeVars, timeVars, gridVars, restVars>>

\* line 325 rejects: lines 336-338
ThresholdFailed(v) ==
    /\ v \in thPending
    /\ thPending' = thPending \ {v}
    /\ thLast' = [op |-> "failed", arg |-> <<>>, value |-> v, before |-> thresholdObj]
    /\ UNCHANGED <<thresholdObj, thBackend>>
    /\ UNCHANGED <<cascadeVars, timeVars, gridVars, restVars>>

ThresholdInit ==
    /\ thresholdObj \in {NoThreshold, [id |-> 1, min_anomaly_score |-> 1]}
    /\ thPending = {}
    /\ thBackend = thresholdObj.min_anomaly_score
    /\ thLast = NoThresholdStep
    /\ CascadeInit /\ TimeIdle /\ GridIdle /\ RestIdle

ThresholdNext ==
    \/ \E thresholdOverrideArg \in Args : ThresholdOverride(thresholdOverrideArg)
    \/ \E v \in thPending : ThresholdConfirmed(v)
    \/ \E v \in thPending : ThresholdFailed(v)

SpecThreshold == ThresholdInit /\ [][ThresholdNext]_vars

\* a text that denotes a number: at least one digit and, around the digits,
\* nothing but white space
IsNumericText(str) ==
    LET t == TrimRight(TrimLeft(str)) IN
    t # <<>> /\ \A i \in 1..Len(t) : t[i] \in Digits

\* C7 (as claimed): the cached threshold changes only on a confirmation, to the
\* value of the confirmed request; an event that is malformed (non-numeric) or
\* equal to the cached value is not forwarded, and neither it nor a failed
\* request changes the cached threshold.
C7_ThresholdOnlyOnConfirm ==
    /\ thLast.op \in {"ignored", "forwarded", "failed"} => thresholdObj = thLast.before
    /\ thLast.op = "confirmed" =>
          /\ thresholdObj.min_anomaly_score = thLast.value
          /\ thBackend = thLast.value
    /\ thLast.op = "forwarded" =>
          /\ IsNumericText(thLast.arg)
          /\ thLast.value # thLast.before.min_anomaly_score

\* the same with "numeric" read as line 319 reads it (a non-empty string that
\* Number() does not turn into NaN, white space included)
C7_ThresholdAsCoded ==
    /\ thLast.op \in {"ignored", "forwarded", "failed"} => thresholdObj = thLast.before
    /\ thLast.op = "confirmed" =>
          /\ thresholdObj.min_anomaly_score = thLast.value
          /\ thBackend = thLast.value
    /\ thLast.op = "forwarded" =>
          /\ thLast.arg # <<>> /\ Number(thLast.arg) # NaN
          /\ thLast.value # thLast.before.min_anomaly_score

(***************************************************************************)
(* SpecGrid: getBoundingBoxesFromGrid, src/helpers.ts:4-60, on every       *)
(* rectangular grid of at most MaxCells cells.  Rows and columns are       *)
(* numbered from 0 as in the code: grid[y][x].  One step is one iteration  *)
(* of the scan of lines 51-57 or of the while loop of lines 23-42.         *)
(* regions[i] is the set of cells bfs marked visited while it built        *)
(* boundingBoxes[i]; enqueued[y][x] counts the pushes of cell (x, y).      *)
(***************************************************************************)
MaxCells == 9        \* cells (rows * columns) of a grid

Shapes ==
    {sh \in (0..MaxCells) \X (0..MaxCells) :
        sh[1] * sh[2] <= MaxCells /\ (sh[1] = 0 => sh[2] = 0)}
Grids ==
    UNION {[0..(sh[1] - 1) -> [0..(sh[2] - 1) -> {0, 1}]] : sh \in Shapes}

Rows(g) == Cardinality(DOMAIN g)            \* grid.length
Cols(g) == Cardinality(DOMAIN g[0])         \* grid[0].length

Min(a, b) == IF a <= b THEN a ELSE b
Max(a, b) == IF a >= b THEN a ELSE b

\* lines 9-12, each entry [dx, dy]
directions4 == <<<<-1, 0>>, <<1, 0>>, <<0, -1>>, <<0, 1>>>>
directions ==
    <<<<-1, 0>>, <<1, 0>>, <<0, -1>>, <<0, 1>>,
      <<-1, -1>>, <<-1, 1>>, <<1, -1>>, <<1, 1>>>>

\* lines 14-16
isValid(x, y) == x >= 0 /\ x < Cols(grid) /\ y >= 0 /\ y < Rows(grid)

\* line 53: the scan starts a traversal at (x, y)
ScanStartsAtOccupied(x, y) == grid[y][x] = 1
ScanStarts(x, y) == grid[y][x] = 1 /\ ~visited[y][x]

\* lines 45-47
BoxWithoutPlusOne(b) ==
    [x |-> b.minX, y |-> b.minY, w |-> b.maxX - b.minX, h |-> b.maxY - b.minY]
BoxOf(b) ==
    [x |-> b.minX, y |-> b.minY, w |-> b.maxX - b.minX + 1, h |-> b.maxY - b.minY + 1]

\* grid[y][x] as line 37 reads it: a row shorter than grid[0] has no element
\* at x, and what is read there (undefined) is not 1
CellAt(g, x, y) == IF y \in DOMAIN g /\ x \in DOMAIN g[y] THEN g[y][x] ELSE 0

\* line 37: the cell has not been marked visited
VisitedIgnored(vis, x, y) == TRUE
NotYetVisited(vis, x, y) == ~vis[y][x]

\* lines 33-41: the neighbours of (x, y) from direction i on, in order
RECURSIVE Neighbours(_, _, _, _, _, _)
Neighbours(i, x, y, vis, q, enq) ==
    IF i > Len(directions) THEN [visited |-> vis, queue |-> q, enqueued |-> enq]
    ELSE LET newX == x + directions[i][1]
             newY == y + directions[i][2]
         IN  IF /\ isValid(newX, newY) /\ CellAt(grid, newX, newY) = 1
                   /\ NotYetVisited(vis, newX, newY)
                THEN Neighbours(i + 1, x, y,
                                [vis EXCEPT ![newY][newX] = TRUE],
                                Append(q, <<newX, newY>>),
                                [enq EXCEPT ![newY][newX] = @ + 1])
                ELSE Neighbours(i + 1, x, y, vis, q, enq)

\* lines 51-57, one iteration; lines 19-21 when it calls bfs; line 59 at the end
ScanStep ==
    /\ gridPc = "scan"
    /\ LET y == scan[1]
           x == scan[2]
       IN  IF y >= Rows(grid)
              THEN /\ gridPc' = "done"
                   /\ UNCHANGED <<scan, visited, queue, box, regions, enqueued>>
           ELSE IF x >= Cardinality(DOMAIN grid[y])
              THEN /\ scan' = <<y + 1, 0>>
                   /\ UNCHANGED <<gridPc, visited, queue, box, regions, enqueued>>
           ELSE IF ScanStarts(x, y)
              THEN /\ box' = [minX |-> x, maxX |-> x, minY |-> y, maxY |-> y]
                   /\ queue' = <<<<x, y>>>>
                   /\ visited' = [visited EXCEPT ![y][x] = TRUE]
                   /\ enqueued' = [enqueued EXCEPT ![y][x] = @ + 1]
                   /\ regions' = Append(regions, {<<x, y>>})
                   /\ gridPc' = "bfs"
                   /\ UNCHANGED scan
              ELSE /\ scan' = <<y, x + 1>>
                   /\ UNCHANGED <<gridPc, visited, queue, box, regions, enqueued>>
    /\ UNCHANGED <<grid, boundingBoxes>>
    /\ UNCHANGED <<cascadeVars, timeVars, thresholdVars, restVars>>

\* lines 23-42, one iteration; lines 45-47 and the return when the queue is empty
BfsStep ==
    /\ gridPc = "bfs"
    /\ IF queue = <<>>
          THEN /\ boundingBoxes' = Append(boundingBoxes, BoxOf(box))
               /\ scan' = <<scan[1], scan[2] + 1>>
               /\ gridPc' = "scan"
               /\ UNCHANGED <<visited, queue, box, regions, enqueued>>
          ELSE LET x == Head(queue)[1]
                   y == Head(queue)[2]
                   r == Neighbours(1, x, y, visited, Tail(queue), enqueued)
               IN  /\ box' = [minX |-> Min(box.minX, x), maxX |-> Max(box.maxX, x),
                              minY |-> Min(box.minY, y), maxY |-> Max(box.maxY, y)]
                   /\ visited' = r.visited
                   /\ queue' = r.queue
                   /\ enqueued' = r.enqueued
                   /\ regions' =
                         [regions EXCEPT ![Len(regions)] =
                             @ \cup UNION {{<<cx, cy>> : cx \in
                                               {k \in DOMAIN visited[cy] :
                                                   r.visited[cy][k] /\ ~visited[cy][k]}} :
                                            cy \in DOMAIN visited}]
                   /\ UNCHANGED <<boundingBoxes, scan, gridPc>>
    /\ UNCHANGED grid
    /\ UNCHANGED <<cascadeVars, timeVars, thresholdVars, restVars>>

\* lines 5-6 and the start of the scan
GridInit ==
    /\ grid \in Grids
    /\ visited = [y \in DOMAIN grid |-> [x \in DOMAIN grid[y] |-> FALSE]]
    /\ enqueued = [y \in DOMAIN grid |-> [x \in DOMAIN grid[y] |-> 0]]
    /\ boundingBoxes = <<>>
    /\ queue = <<>>
    /\ box = NoBox
    /\ scan = <<0, 0>>
    /\ gridPc = "scan"
    /\ regions = <<>>
    /\ CascadeInit /\ TimeIdle /\ ThresholdIdle /\ RestIdle

GridNext == ScanStep \/ BfsStep

SpecGrid == GridInit /\ [][GridNext]_vars

(***************************************************************************)
(* Claims about the boxes returned (gridPc = "done").                      *)
(***************************************************************************)
AllCells == {<<x, y>> : x \in 0..(Cols(grid) - 1), y \in 0..(Rows(grid) - 1)}
TrueCells == IF Rows(grid) = 0 THEN {} ELSE {c \in AllCells : grid[c[2]][c[1]] = 1}
CellsOf(b) == {<<x, y>> : x \in b.x..(b.x + b.w - 1), y \in b.y..(b.y + b.h - 1)}
Boxes == 1..Len(boundingBoxes)

Adjacent8(c, d) ==
    c # d /\ c[1] - d[1] \in -1..1 /\ c[2] - d[2] \in -1..1

\* the maximal 8-connected region of occupied cells that holds the cells of S
RECURSIVE RegionOf(_)
RegionOf(S) ==
    LET more == S \cup {c \in TrueCells : \E d \in S : Adjacent8(c, d)}
    IN  IF more = S THEN S ELSE RegionOf(more)
Regions == {RegionOf({c}) : c \in TrueCells}

\* {x:minCol, y:minRow, w:maxCol-minCol+1, h:maxRow-minRow+1} of a set of cells
TightBox(S) ==
    LET minCol == CHOOSE a \in {c[1] : c \in S} : \A c \in S : a <= c[1]
        maxCol == CHOOSE a \in {c[1] : c \in S} : \A c \in S : a >= c[1]
        minRow == CHOOSE a \in {c[2] : c \in S} : \A c \in S : a <= c[2]
        maxRow == CHOOSE a \in {c[2] : c \in S} : \A c \in S : a >= c[2]
    IN  [x |-> minCol, y |-> minRow, w |-> maxCol - minCol + 1, h |-> maxRow - minRow + 1]

Row2(a, b) == [x \in 0..1 |-> IF x = 0 THEN a ELSE b]
Row3(a, b, c) == [x \in 0..2 |-> IF x = 0 THEN a ELSE IF x = 1 THEN b ELSE c]
\* [[1,0],[0,1]]
DiagonalGrid == [y \in 0..1 |-> IF y = 0 THEN Row2(1, 0) ELSE Row2(0, 1)]
\* [[1,0,0],[0,0,0],[0,0,1]]
CornersGrid ==
    [y \in 0..2 |-> IF y = 0 THEN Row3(1, 0, 0)
                    ELSE IF y = 1 THEN Row3(0, 0, 0) ELSE Row3(0, 0, 1)]
\* [[1,0,1],[1,0,0],[1,1,1]]
HookGrid ==
    [y \in 0..2 |-> IF y = 0 THEN Row3(1, 0, 1)
                    ELSE IF y = 1 THEN Row3(1, 0, 0) ELSE Row3(1, 1, 1)]

\* C8 (as claimed): every box covers only true cells, the boxes together cover
\* exactly the true cells, and no cell is covered by two boxes.
C8_BoxesPartitionTrueCells ==
    gridPc = "done" =>
        /\ \A i \in Boxes : CellsOf(boundingBoxes[i]) \subseteq TrueCells
        /\ UNION {CellsOf(boundingBoxes[i]) : i \in Boxes} = TrueCells
        /\ \A i, j \in Boxes :
              i # j => CellsOf(boundingBoxes[i]) \cap CellsOf(boundingBoxes[j]) = {}

\* C8 (amended): every true cell is covered by a box, and every box lies in the
\* grid and covers a true cell.
C8_BoxesCoverTrueCells ==
    gridPc = "done" =>
        /\ TrueCells \subseteq UNION {CellsOf(boundingBoxes[i]) : i \in Boxes}
        /\ \A i \in Boxes :
              /\ CellsOf(boundingBoxes[i]) \subseteq AllCells
              /\ CellsOf(boundingBoxes[i]) \cap TrueCells # {}

\* the diagonal grid is done: its one box covers two cells that are not true
C8_Witness ==
    /\ gridPc = "done" /\ grid = DiagonalGrid
    /\ boundingBoxes = <<[x |-> 0, y |-> 0, w |-> 2, h |-> 2]>>

\* C9 (as claimed): the rectangles of two distinct boxes share no grid cell.
C9_BoxesDisjoint ==
    gridPc = "done" =>
        \A i, j \in Boxes :
            i # j => CellsOf(boundingBoxes[i]) \cap CellsOf(boundingBoxes[j]) = {}

\* C9 (amended): the regions of two distinct boxes share no cell, and the two
\* boxes are not the same rectangle.
C9_RegionsDisjoint ==
    gridPc = "done" =>
        \A i, j \in Boxes :
            i # j => /\ regions[i] \cap regions[j] = {}
                     /\ boundingBoxes[i] # boundingBoxes[j]

\* the hook grid is done: the box of the hook contains the box of the lone cell
C9_Witness ==
    /\ gridPc = "done" /\ grid = HookGrid
    /\ boundingBoxes = <<[x |-> 0, y |-> 0, w |-> 3, h |-> 3],
                         [x |-> 2, y |-> 0, w |-> 1, h |-> 1]>>

\* C10: the boxes returned are, one for one, the tight bounding boxes of the
\* maximal 8-connected regions of occupied cells; none when no cell is
\* occupied; and the two example grids give the boxes stated.
C10_OneTightBoxPerRegion ==
    gridPc = "done" =>
        /\ Len(boundingBoxes) = Cardinality(Regions)
        /\ \A i \in Boxes :
              regions[i] \in Regions /\ boundingBoxes[i] = TightBox(regions[i])
        /\ \A R \in Regions : \E i \in Boxes : regions[i] = R
        /\ TrueCells = {} => boundingBoxes = <<>>
        /\ grid = DiagonalGrid =>
              boundingBoxes = <<[x |-> 0, y |-> 0, w |-> 2, h |-> 2]>>
        /\ grid = CornersGrid =>
              boundingBoxes = <<[x |-> 0, y |-> 0, w |-> 1, h |-> 1],
                                [x |-> 2, y |-> 2, w |-> 1, h |-> 1]>>

\* the corners grid is done with its two boxes
C10_Witness ==
    /\ gridPc = "done" /\ grid = CornersGrid /\ Len(boundingBoxes) = 2

(***************************************************************************)
(* SpecAnnotate: highlightAnomalyInImage, src/helpers.ts:62-141.  The      *)
(* image is what sharp reads of it (readable or not, width, height), here  *)
(* a square one under a model input of any proportions; the                *)
(* classifier result is its visual_anomaly_grid (absent, or a list of      *)
(* cells).  Lengths are in pixels.  lowestFactor is a fraction num/den,    *)
(* and the overlay rectangles, which the code computes as reals, are kept  *)
(* as numerators over lowestFactor.den.  One step is the code between two  *)
(* awaits; getBoundingBoxesFromGrid (line 94) runs by the steps of         *)
(* SpecGrid on the grid built at lines 82-92.                              *)
(***************************************************************************)
MaxSide == 3         \* model input sides are 1..MaxSide, image sides up to twice that

Images ==
    {NoMetadata} \cup
    {[readable |-> TRUE, width |-> s, height |-> s] : s \in 1..(2 * MaxSide)}
Models ==
    {[image_input_width |-> w, image_input_height |-> h] : w, h \in 1..MaxSide}
CellSizes == {1, 2}
CellsOfSize(s) ==
    {[x |-> x, y |-> y, width |-> s, height |-> s] : x, y \in 0..MaxSide}
\* the runner reports cells in row-major order
ReportedBefore(c, d) == c.y < d.y \/ (c.y = d.y /\ c.x < d.x)
CellLists ==
    {<<>>} \cup
    UNION {{<<c>> : c \in CellsOfSize(s)} \cup
           {l \in {<<c, d>> : c, d \in CellsOfSize(s)} : ReportedBefore(l[1], l[2])} :
           s \in CellSizes}
AnomalyGrids == {NoGrid} \cup {[present |-> TRUE, cells |-> l] : l \in CellLists}

Floor(n, d) == n \div d                      \* Math.floor(n / d), n >= 0, d > 0
Ceil(n, d) == (n + d - 1) \div d             \* Math.ceil(n / d), n >= 0, d > 0
Round(n, d) == (2 * n + d) \div (2 * d)      \* Math.round(n / d), n >= 0, d > 0
SetMax(S) == CHOOSE a \in S : \A b \in S : a >= b

\* lines 66-69
lowestFactor ==
    IF imgMetadata.width * modelParameters.image_input_height
          <= imgMetadata.height * modelParameters.image_input_width
       THEN [num |-> imgMetadata.width, den |-> modelParameters.image_input_width]
       ELSE [num |-> imgMetadata.height, den |-> modelParameters.image_input_height]
\* lines 70-71
resizedWidth == Round(modelParameters.image_input_width * lowestFactor.num, lowestFactor.den)
resizedHeight ==
    Round(modelParameters.image_input_height * lowestFactor.num, lowestFactor.den)
\* lines 72-75: sharp's resize takes positive integers and throws otherwise
ResizeAccepted == resizedWidth >= 1 /\ resizedHeight >= 1

\* line 77
HasAnomalyCells == visual_anomaly_grid.present /\ Len(visual_anomaly_grid.cells) > 0
\* lines 78-79
cellWidth == visual_anomaly_grid.cells[1].width
cellHeight == visual_anomaly_grid.cells[1].height

\* lines 82-83: Array.from truncates its length; Array(n) throws a RangeError
\* when n is not an integer
GridRows == modelParameters.image_input_height \div cellHeight
GridCols == modelParameters.image_input_width \div cellWidth
RowLengthValid == modelParameters.image_input_width % cellWidth = 0

\* lines 84-86: the (cellX, cellY) the loops of one cell, and of all cells, go through
CellSteps(cell) ==
    {<<cell.x + i * cellWidth, cell.y + j * cellHeight>> :
        i \in {k \in 0..(cell.width - 1) : k * cellWidth < cell.width},
        j \in {k \in 0..(cell.height - 1) : k * cellHeight < cell.height}}
AllSteps ==
    UNION {CellSteps(visual_anomaly_grid.cells[k]) :
              k \in 1..Len(visual_anomaly_grid.cells)}

\* lines 87-89 for one (cellX, cellY): grid[y] is undefined, and the
\* assignment throws a TypeError, when y is not the index of a row
StepThrows(m) == m[2] % cellHeight # 0 \/ m[2] \div cellHeight >= GridRows
\* lines 82-92 throw
GridThrows ==
    \/ GridRows >= 1 /\ ~RowLengthValid
    \/ \E m \in AllSteps : StepThrows(m)

\* lines 82-92 when nothing throws: a column x that is not an integer sets a
\* property of the row and none of its elements; a column past the end of
\* the row lengthens the row
BuiltGrid ==
    [y \in 0..(GridRows - 1) |->
        LET marked == {m[1] \div cellWidth :
                          m \in {n \in AllSteps : n[2] \div cellHeight = y
                                                   /\ n[1] % cellWidth = 0}}
            len == IF marked = {} THEN GridCols ELSE Max(GridCols, SetMax(marked) + 1)
        IN  [x \in 0..(len - 1) |-> IF x \in marked THEN 1 ELSE 0]]

\* lines 94-101
anomalyBb(b) ==
    [x |-> b.x * cellWidth, y |-> b.y * cellHeight,
     w |-> b.w * cellWidth, h |-> b.h * cellHeight]

\* lines 103-104
strokeWidth == Floor(2 * lowestFactor.num, lowestFactor.den)
strokeOffset == Ceil(lowestFactor.num, lowestFactor.den)

\* lines 112-113, and lines 114-119, on numerators over lowestFactor.den
ClampOrigin(origin, offset) == IF origin < offset THEN offset ELSE origin
ExtentUnclamped(origin, extent, size, offset) == extent
ClampExtent(origin, extent, size, offset) ==
    IF origin + extent + offset > size THEN size - origin - offset ELSE extent

\* lines 108-120 for one box
OverlayRect(bb) ==
    LET den == lowestFactor.den
        x == ClampOrigin((bb.x - strokeWidth) * lowestFactor.num, strokeOffset * den)
        y == ClampOrigin((bb.y - strokeWidth) * lowestFactor.num, strokeOffset * den)
        w == ClampExtent(x, (bb.w + strokeWidth * 2) * lowestFactor.num,
                         resizedWidth * den, strokeOffset * den)
        h == ClampExtent(y, (bb.h + strokeWidth * 2) * lowestFactor.num,
                         resizedHeight * den, strokeOffset * den)
    IN  [x |-> x, y |-> y, w |-> w, h |-> h]

\* lines 134-137: the PNG of the resized image with the overlay on it
ReturnComposite ==
    [kind |-> "png", rects |-> overlayRects, width |-> resizedWidth,
     height |-> resizedHeight]
\* line 140: the buffer passed in
ReturnReencoded ==
    [kind |-> "png", rects |-> <<>>, width |-> resizedWidth, height |-> resizedHeight]
ReturnInput ==
    [kind |-> "img", rects |-> <<>>, width |-> imgMetadata.width,
     height |-> imgMetadata.height]

\* line 63 resumes with the metadata; lines 66-92 and the start of line 94, or
\* the return of line 140, or a throw
AnnMetadataResolves ==
    /\ annPc = "metadata" /\ imgMetadata.readable
    /\ IF ~ResizeAccepted
          THEN /\ annPc' = "rejected"
               /\ UNCHANGED <<returned, gridVars>>
       ELSE IF ~HasAnomalyCells
          THEN /\ annPc' = "returned"
               /\ returned' = ReturnInput
               /\ UNCHANGED gridVars
       ELSE IF GridThrows
          THEN /\ annPc' = "rejected"
               /\ UNCHANGED <<returned, gridVars>>
          ELSE /\ annPc' = "boxes"
               /\ grid' = BuiltGrid
               /\ visited' = [y \in DOMAIN BuiltGrid |->
                                 [x \in DOMAIN BuiltGrid[y] |-> FALSE]]
               /\ enqueued' = [y \in DOMAIN BuiltGrid |->
                                  [x \in DOMAIN BuiltGrid[y] |-> 0]]
               /\ boundingBoxes' = <<>> /\ queue' = <<>> /\ box' = NoBox
               /\ scan' = <<0, 0>> /\ gridPc' = "scan" /\ regions' = <<>>
               /\ UNCHANGED returned
    /\ UNCHANGED <<imgMetadata, modelParameters, visual_anomaly_grid, overlayRects>>
    /\ UNCHANGED <<cascadeVars, timeVars, thresholdVars, snapVars, rateVars>>

\* line 63 rejects: sharp cannot read the image
AnnMetadataRejects ==
    /\ annPc = "metadata" /\ ~imgMetadata.readable
    /\ annPc' = "rejected"
    /\ UNCHANGED <<imgMetadata, modelParameters, visual_anomaly_grid, overlayRects,
                   returned>>
    /\ UNCHANGED <<cascadeVars, timeVars, thresholdVars, gridVars, snapVars, rateVars>>

\* getBoundingBoxesFromGrid has returned: lines 94-131, up to the await of line 134
AnnOverlay ==
    /\ annPc = "boxes" /\ gridPc = "done"
    /\ overlayRects' = [i \in 1..Len(boundingBoxes) |->
                           OverlayRect(anomalyBb(boundingBoxes[i]))]
    /\ annPc' = "composite"
    /\ UNCHANGED <<imgMetadata, modelParameters, visual_anomaly_grid, returned>>
    /\ UNCHANGED <<cascadeVars, timeVars, thresholdVars, gridVars, snapVars, rateVars>>

\* line 134 resumes with the PNG
AnnCompositeResolves ==
    /\ annPc = "composite"
    /\ returned' = ReturnComposite
    /\ annPc' = "returned"
    /\ UNCHANGED <<imgMetadata, modelParameters, visual_anomaly_grid, overlayRects>>
    /\ UNCHANGED <<cascadeVars, timeVars, thresholdVars, gridVars, snapVars, rateVars>>

\* line 134 rejects
AnnCompositeRejects ==
    /\ annPc = "composite"
    /\ annPc' = "rejected"
    /\ UNCHANGED <<imgMetadata, modelParameters, visual_anomaly_grid, overlayRects,
                   returned>>
    /\ UNCHANGED <<cascadeVars, timeVars, thresholdVars, gridVars, snapVars, rateVars>>

\* the call of line 62, suspended at line 63
AnnotateInit ==
    /\ imgMetadata \in Images
    /\ modelParameters \in Models
    /\ visual_anomaly_grid \in AnomalyGrids
    /\ annPc = "metadata"
    /\ overlayRects = <<>>
    /\ returned = NoReturn
    /\ CascadeInit /\ TimeIdle /\ ThresholdIdle /\ GridIdle /\ SnapIdle /\ RateIdle

AnnotateNext ==
    \/ AnnMetadataResolves
    \/ AnnMetadataRejects
    \/ ScanStep
    \/ BfsStep
    \/ AnnOverlay
    \/ AnnCompositeResolves
    \/ AnnCompositeRejects

SpecAnnotate == AnnotateInit /\ [][AnnotateNext]_vars

\* the cells reported fit the grid of the model input: the input is a whole
\* number of cells each way and every cell is one cell of that grid
GeometryConsistent ==
    HasAnomalyCells =>
        /\ modelParameters.image_input_width % cellWidth = 0
        /\ modelParameters.image_input_height % cellHeight = 0
        /\ \A k \in 1..Len(visual_anomaly_grid.cells) :
              LET cell == visual_anomaly_grid.cells[k]
              IN  /\ cell.x % cellWidth = 0 /\ cell.y % cellHeight = 0
                  /\ cell.x + cell.width <= modelParameters.image_input_width
                  /\ cell.y + cell.height <= modelParameters.image_input_height
AnnRects == 1..Len(overlayRects)

C13_GeometryErrorAsNoAnomaly ==
    (~GeometryConsistent /\ imgMetadata.readable /\ ResizeAccepted
        /\ annPc # "metadata") =>
            annPc = "returned" /\ returned.kind = "img"

\* C18 (as claimed): every overlay rectangle has w >= 0 and h >= 0 after the
\* clamping, for every box and every scale factor (taken for cells that fit
\* the grid, and a grid of two rows and two columns at least).
C18_NonNegativeExtent ==
    (annPc \in {"composite", "returned"} /\ GeometryConsistent
        /\ HasAnomalyCells /\ GridCols >= 2 /\ GridRows >= 2) =>
        \A i \in AnnRects : overlayRects[i].w >= 0 /\ overlayRects[i].h >= 0

(***************************************************************************)
(* Claims about the result handlers, checked under Spec.                   *)
(***************************************************************************)
\* C14 (as claimed): a result handler whose annotation fails (line 284
\* rejects) still ends by recomputing anomalySeen from its own result, as
\* every handler that ends does.
C14_FlagRecomputedOnFailure ==
    [][\A h \in handlers :
          (h.pc = "annotating" /\ \A k \in handlers' : k.seq # h.seq) =>
              anomalySeen' = AnomalySeenUpdate(h.anomaly, isRunningOpenAI)]_vars

\* C15 (as claimed): while a downstream call is in flight anomalySeen is held
\* cleared: no step taken during the call sets it to true.
C15_HeldClearedDuringCall ==
    [][(loopPc = "calling" /\ loopPc' = "calling" /\ ~anomalySeen) => ~anomalySeen']_vars

\* C17 (as claimed): when no result handler is suspended and anomalySeen is
\* true, the pending image is the overlay-bearing annotation of the anomalous
\* result the flag comes from (taken when the pending image is that of the
\* latest result, which then has to be that anomalous result).
C17_FlagAndImageFromSameResult ==
    (handlers = {} /\ anomalySeen /\ lastAnnotated = latestEv) =>
        /\ latestEv.anomaly
        /\ imgToSendToOpenAI = AnnotationOf(latestEv)
        /\ imgToSendToOpenAI.overlay # 0

(***************************************************************************)
(* SpecRate: the trigger loop against the clock of SpecTimed (one tick is  *)
(* 100 ms, timers fire when due), with classifier results at any rate:     *)
(* any number of results, with or without anomaly cells, reach lines       *)
(* 291-296 between two ticks.  Cascade is enabled and disabled at will.    *)
(* The downstream call takes any time, none included.                      *)
(***************************************************************************)
\* lines 291-296 of a result handler
RResult(hasAnomaly) ==
    /\ anomalySeen # AnomalySeenUpdate(hasAnomaly, isRunningOpenAI)
    /\ anomalySeen' = AnomalySeenUpdate(hasAnomaly, isRunningOpenAI)
    /\ UNCHANGED <<cascadeEnabled, prompt, lastFrameOriginalResolution, isRunningOpenAI,
                   imgToSendToOpenAI, loopPc, inFlight, request, emitted, console,
                   handlers, nResults, nCalls, latestEv, lastAnnotated, flips, polled,
                   issued, cycleOutcome>>
    /\ UNCHANGED <<timeVars, thresholdVars, gridVars, restVars>>

\* 100 ms pass: no timer is due
RTick ==
    /\ now < MaxTime
    /\ loopPc \in {"sleep1", "sleep2"} => timerAt > now
    /\ now' = now + 1
    /\ UNCHANGED <<cascadeVars, timerAt, sigStart, thresholdVars, gridVars, restVars>>

\* line 225: when the settle timer started now is due
SettleDueNow == now
SettleDue == now + SettleTicks

\* the timer of line 218 fires
RPoll ==
    /\ timerAt = now
    /\ LoopPoll
    /\ timerAt' = IF loopPc' = "sleep2" THEN SettleDue ELSE now + PollTicks
    /\ UNCHANGED <<now, sigStart, thresholdVars, gridVars, restVars>>

\* the timer of line 225 fires
RRecheck ==
    /\ timerAt = now
    /\ LoopRecheck
    /\ timerAt' = IF loopPc' = "sleep1" THEN now + PollTicks ELSE timerAt
    /\ cycles' = cycles + 1
    /\ lastStart' = IF nCalls' # nCalls THEN now ELSE lastStart
    /\ UNCHANGED <<now, sigStart, lastEnd, thresholdVars, gridVars, annotVars, snapVars>>

RCallResolves(wellFormed) ==
    /\ CallResolves(wellFormed)
    /\ timerAt' = now + PollTicks
    /\ lastEnd' = now
    /\ UNCHANGED <<now, sigStart, lastStart, cycles, thresholdVars, gridVars, annotVars,
                   snapVars>>

RCallRejects ==
    /\ CallRejects
    /\ timerAt' = now + PollTicks
    /\ lastEnd' = now
    /\ UNCHANGED <<now, sigStart, lastStart, cycles, thresholdVars, gridVars, annotVars,
                   snapVars>>

\* the loop has just started its first sleep
RateInit ==
    /\ CascadeInit
    /\ now = 0 /\ timerAt = PollTicks /\ sigStart = 0
    /\ ThresholdIdle /\ GridIdle /\ RestIdle

RateNext ==
    \/ \E hasAnomaly \in BOOLEAN : RResult(hasAnomaly)
    \/ RTick
    \/ RPoll
    \/ RRecheck
    \/ \E wellFormed \in BOOLEAN : RCallResolves(wellFormed)
    \/ RCallRejects
    \/ CascadeEnable /\ CascadeOnly
    \/ CascadeDisable /\ CascadeOnly

SpecRate == RateInit /\ [][RateNext]_vars

\* C16: whatever the rate of classifier results, a downstream call starts no
\* earlier than a poll delay and a settle delay after the call before it
\* settled (or after the loop started), and the calls started never outnumber
\* the poll/settle cycles completed.
C16_RateBound ==
    /\ nCalls <= cycles
    /\ nCalls >= 1 => lastStart >= PollTicks + SettleTicks
    /\ (nCalls >= 2 /\ loopPc = "calling") =>
          lastStart >= lastEnd + PollTicks + SettleTicks

\* a second call started exactly two timer waits after the first one settled
C16_Witness ==
    /\ nCalls = 2 /\ loopPc = "calling"
    /\ lastEnd > 0
    /\ lastStart = lastEnd + PollTicks + SettleTicks

(***************************************************************************)
(* SpecSnapshot: the camera 'snapshot' handler, src/README.md:179-208,     *)
(* against the clock `now` (Date.now()), here in ticks of 10 ms.  The      *)
(* camera delivers snapshots at any moment; data names the frame.  The     *)
(* handler is suspended at line 203 until the JPEG is encoded, or ends     *)
(* there when the encoding fails.                                          *)
(***************************************************************************)
MaxFrames == 2       \* different frames the camera delivers
FrameGapTicks == 5   \* line 206: Date.now() + 50

\* line 182: the snapshot is not dropped
SnapshotTaken == ~(nextFrame > now \/ processingFrame)

\* lines 182-203, up to the await, or the return of line 182
Snapshot(data) ==
    /\ snapLast' = [op |-> IF SnapshotTaken THEN "taken" ELSE "dropped", data |-> data,
                    at |-> now, frame |-> lastFrameOriginalResolution,
                    nextFrame |-> nextFrame, processingFrame |-> processingFrame]
    /\ IF SnapshotTaken
          THEN /\ lastFrameOriginalResolution' = data
               /\ processingFrame' = TRUE
               /\ snapshotsInProcess' = snapshotsInProcess + 1
          ELSE UNCHANGED <<lastFrameOriginalResolution, processingFrame,
                           snapshotsInProcess>>
    /\ UNCHANGED <<cascadeEnabled, prompt, isRunningOpenAI, imgToSendToOpenAI,
                   anomalySeen, loopPc, inFlight, request, emitted, console, handlers,
                   nResults, nCalls, latestEv, lastAnnotated, flips, polled, issued,
                   cycleOutcome>>
    /\ UNCHANGED <<nextFrame, timeVars, thresholdVars, gridVars, annotVars, rateVars>>

\* line 203 resumes with the JPEG: lines 202-207
SnapshotEncoded ==
    /\ snapshotsInProcess > 0
    /\ snapshotsInProcess' = snapshotsInProcess - 1
    /\ nextFrame' = now + FrameGapTicks
    /\ processingFrame' = FALSE
    /\ snapLast' = [op |-> "encoded", data |-> 0, at |-> now,
                    frame |-> lastFrameOriginalResolution, nextFrame |-> nextFrame,
                    processingFrame |-> processingFrame]
    /\ UNCHANGED <<cascadeVars, timeVars, thresholdVars, gridVars, annotVars, rateVars>>

\* line 203 rejects (sharp cannot encode the frame): the handler has no
\* try/catch and ends there, lines 206-207 are not run
SnapshotFails ==
    /\ snapshotsInProcess > 0
    /\ snapshotsInProcess' = snapshotsInProcess - 1
    /\ snapLast' = [op |-> "failed", data |-> 0, at |-> now,
                    frame |-> lastFrameOriginalResolution, nextFrame |-> nextFrame,
                    processingFrame |-> processingFrame]
    /\ UNCHANGED <<nextFrame, processingFrame>>
    /\ UNCHANGED <<cascadeVars, timeVars, thresholdVars, gridVars, annotVars, rateVars>>

\* 10 ms pass
SnapTick ==
    /\ now < MaxTime
    /\ now' = now + 1
    /\ UNCHANGED <<cascadeVars, timerAt, sigStart, thresholdVars, gridVars, restVars>>

\* lines 178-180
SnapshotInit ==
    /\ CascadeInit
    /\ now = 0 /\ timerAt = 0 /\ sigStart = 0
    /\ nextFrame = now /\ processingFrame = FALSE /\ snapshotsInProcess = 0
    /\ snapLast = NoSnapStep
    /\ ThresholdIdle /\ GridIdle /\ AnnotIdle /\ RateIdle

SnapshotNext ==
    \/ \E data \in 1..MaxFrames : Snapshot(data)
    \/ SnapshotEncoded
    \/ SnapshotFails
    \/ SnapTick

SpecSnapshot == SnapshotInit /\ [][SnapshotNext]_vars

\* what a dropped snapshot leaves alone, and the exclusion of two snapshots
\* in process
C19_DropsAndExclusion ==
    /\ snapshotsInProcess <= 1
    /\ snapLast.op = "dropped" =>
          /\ snapLast.nextFrame > snapLast.at \/ snapLast.processingFrame
          /\ lastFrameOriginalResolution = snapLast.frame
          /\ nextFrame = snapLast.nextFrame
          /\ processingFrame = snapLast.processingFrame
    /\ snapLast.op = "taken" =>
          ~(snapLast.nextFrame > snapLast.at \/ snapLast.processingFrame)

\* C19 (as claimed): at most one snapshot is in process; a snapshot that
\* arrives while one is in process or before nextFrame is dropped and changes
\* nothing; and processingFrame is set only while a handler is there to
\* release it, also after the processing of a snapshot has failed.
C19_SnapshotPacing ==
    /\ C19_DropsAndExclusion
    /\ processingFrame => snapshotsInProcess = 1

(***************************************************************************)
(* SpecGridFair: getBoundingBoxesFromGrid runs on: a call that can take a  *)
(* step takes it (the function is synchronous code).                       *)
(***************************************************************************)
SpecGridFair == SpecGrid /\ WF_vars(GridNext)

\* C20: for every grid the function terminates, and at every moment of the
\* traversal a cell has been enqueued at most once and only if it is
\* occupied, is marked visited exactly when it has been enqueued, and has
\* been enqueued exactly once at the end if it is occupied.
C20_TerminatesEnqueuedOnce ==
    /\ <>(gridPc = "done")
    /\ [](\A y \in DOMAIN grid : \A x \in DOMAIN grid[y] :
             /\ enqueued[y][x] <= grid[y][x]
             /\ visited[y][x] <=> enqueued[y][x] = 1
             /\ gridPc = "done" => enqueued[y][x] = grid[y][x])

\* the hook grid is done: its two regions were traversed one after the other
\* and each of its six occupied cells was enqueued once
C20_Witness ==
    /\ gridPc = "done" /\ grid = HookGrid /\ Len(regions) = 2
    /\ \A y \in DOMAIN grid : \A x \in DOMAIN grid[y] : enqueued[y][x] = grid[y][x]

====
